---- MODULE Spec2Model ----
(***************************************************************************)
(* State-machine model of sharepoint_agent.py: a Streamlit script that     *)
(* authenticates, browses OneDrive folders and uploads one file, either    *)
(* with one direct PUT or with the chunked upload driver                   *)
(* upload_large_file.                                                      *)
(*                                                                         *)
(* Two specifications share the driver's actions:                          *)
(*   Spec        the whole script, run after run (each user interaction    *)
(*               re-executes the script from the top);                     *)
(*   SpecDriver  upload_large_file called directly with any file length    *)
(*               and chunk size, as its contract is stated.                *)
(* Blocking network calls are split into the request and its response.     *)
(***************************************************************************)
EXTENDS Integers, Sequences, FiniteSets, TLC

VARIABLES
    pc,             \* position of the script / driver
    exc,            \* the exception that ended the run, or "none"
    accounts,       \* token cache holds an account (msal_app.get_accounts())
    token,          \* value of `token` (line 160), "none" while unset
    initialised,    \* "current_folder" in st.session_state
    current_folder, \* st.session_state.current_folder
    breadcrumb,     \* st.session_state.breadcrumb
    folders,        \* result of list_folders (ids of the listed folders)
    size,           \* len(file.getvalue()) == uploaded_file.size
    chunk_size,     \* the chunk size the driver splits with (CHUNK_SIZE)
    session,        \* local session: the session response as received
    upload_url,     \* local upload_url of upload_large_file
    chunks,         \* local chunks
    i,              \* loop variable of `for i in range(chunks)` (next index)
    r,              \* local r: last chunk response, or unassigned
    resp,           \* resp of the orchestrator (line 210/212)
    progress,       \* values given to the progress bar, in order
    sent,           \* requests issued in the current run, in order
    nresp,          \* chunk responses received in the current run
    ui,             \* st.* outputs of the current run, in order
    inv,            \* number of uploads started so far
    nsessions,      \* upload sessions the service has created so far
    endpointUse     \* pairs <<upload number, endpoint>> of all chunk PUTs

vars == <<pc, exc, accounts, token, initialised, current_folder, breadcrumb,
          folders, size, chunk_size, session, upload_url, chunks, i, r, resp,
          progress, sent, nresp, ui, inv, nsessions, endpointUse>>

----------------------------------------------------------------------------
(* Bounds *)

MaxInvocations == 2
MaxDepth == 2
MaxSize == 7
MaxChunk == 3

(* Program constants *)

CHUNK_SIZE_Decimal == 320 * 1000

\* CHUNK_SIZE = 320 * 1024  # 320 KB (Microsoft minimum)
CHUNK_SIZE == 327680
THRESHOLD == 4194304

FolderIds == {"f1", "f2"}
Statuses == {200, 201, 202, 404, 500}
Bodies == {1, 2}

\* File sizes a user may upload through the script.
FileSizes == {0, 1, THRESHOLD - 1, THRESHOLD, THRESHOLD + 1,
              13 * CHUNK_SIZE, 13 * CHUNK_SIZE + 1}

\* <<file length, chunk size>> pairs the driver is called with directly.
DriverInputs == {<<s, c>> : s \in 0..MaxSize, c \in 1..MaxChunk}
                \cup {<<0, CHUNK_SIZE>>, <<1, CHUNK_SIZE>>,
                      <<CHUNK_SIZE, CHUNK_SIZE>>, <<CHUNK_SIZE + 1, CHUNK_SIZE>>,
                      <<800 * 1024, CHUNK_SIZE>>}

----------------------------------------------------------------------------
(* Pure helpers *)

Min(a, b) == IF a <= b THEN a ELSE b
Max(a, b) == IF a >= b THEN a ELSE b

Digit(d) == <<"0", "1", "2", "3", "4", "5", "6", "7", "8", "9">>[d + 1]

\* str(n) for an int, as a sequence of characters
RECURSIVE DecStr(_)
DecStr(n) == IF n < 0 THEN <<"-">> \o DecStr(-n)
             ELSE IF n < 10 THEN <<Digit(n)>>
             ELSE DecStr(n \div 10) \o <<Digit(n % 10)>>

\* math.ceil(size / CHUNK_SIZE)
TotalChunks(sz, cs) == IF sz % cs = 0 THEN sz \div cs ELSE sz \div cs + 1

\* start = i * CHUNK_SIZE
ChunkStart(k, cs) == k * cs

ChunkEnd_NoMin(start, cs, sz) == start + cs

\* end = min(start + CHUNK_SIZE, size)
ChunkEnd(start, cs, sz) == Min(start + cs, sz)

\* data[start:end] of a buffer of sz bytes: the byte range actually carried
Slice(start, end, sz) ==
    LET lo == Min(Max(start, 0), sz)
        hi == Min(Max(end, 0), sz)
    IN  [lo |-> lo, hi |-> Max(lo, hi)]

\* "Content-Length": str(end - start)
ContentLength(start, end) == DecStr(end - start)

ContentRange_Exclusive(start, end, sz) ==
    <<"b", "y", "t", "e", "s", " ">> \o DecStr(start) \o <<"-">>
        \o DecStr(end) \o <<"/">> \o DecStr(sz)

\* "Content-Range": f"bytes {start}-{end - 1}/{size}"
ContentRange(start, end, sz) ==
    <<"b", "y", "t", "e", "s", " ">> \o DecStr(start) \o <<"-">>
        \o DecStr(end - 1) \o <<"/">> \o DecStr(sz)

IsSuccess_Not4xx(status) == status \notin 400..499

\* r.status_code in (200, 201, 202)
IsSuccess(status) == status \in {200, 201, 202}

UseDirect_Strict(sz) == sz < THRESHOLD

UseDirect_Inverted(sz) == sz > THRESHOLD

\* uploaded_file.size <= 4 * 1024 * 1024
UseDirect(sz) == sz <= THRESHOLD

ProgressValue_Early(k, n) == <<k, n>>

\* (i + 1) / chunks, kept as an exact fraction <<numerator, denominator>>
ProgressValue(k, n) == <<k + 1, n>>

NextIndex_Skip(k) == k + 2

\* the loop's next index
NextIndex(k) == k + 1

HasUploadUrl_Unchecked(sess) == TRUE

\* session["uploadUrl"] is present
HasUploadUrl(sess) == sess.kind = "ok"

\* the endpoint the service hands out for its n-th upload session
Endpoint(n) == <<"u">> \o DecStr(n)

UploadUrlOf_First(sess) == Endpoint(1)

\* upload_url = session["uploadUrl"]
UploadUrlOf(sess) == sess.uploadUrl

NoSession == [kind |-> "none", uploadUrl |-> <<>>]

\* the parsed body of the session response: with an endpoint, without one,
\* or not JSON at all
SessionBody(kind, n) ==
    [kind |-> kind, uploadUrl |-> IF kind = "ok" THEN Endpoint(n) ELSE <<>>]

\* createUploadSession URL: path-addressed at the root, else by item id
SessionUrl(folder_id) ==
    IF folder_id = "root" THEN <<"root", "createUploadSession">>
    ELSE <<"items", folder_id, "createUploadSession">>

\* direct content URL of simple_upload
ContentUrl(folder_id) ==
    IF folder_id = "root" THEN <<"root", "content">>
    ELSE <<"items", folder_id, "content">>

\* children URL of list_folders and create_folder
ChildrenUrl(parent_id) ==
    IF parent_id = "root" THEN <<"root", "children">>
    ELSE <<"items", parent_id, "children">>

Unassigned == [assigned |-> FALSE, status |-> 0, body |-> 0, json |-> FALSE,
               index |-> -1]

Response(status, body, json, index) ==
    [assigned |-> TRUE, status |-> status, body |-> body, json |-> json,
     index |-> index]

Request(kind, url, index, clen, crange, slice, conflict) ==
    [kind |-> kind, url |-> url, index |-> index, clen |-> clen,
     crange |-> crange, lo |-> slice.lo, hi |-> slice.hi, conflict |-> conflict]

NoSlice == [lo |-> 0, hi |-> 0]

Out(op, text, data) == [op |-> op, text |-> text, data |-> data]

ChunkFailureOutputs_NoBody(rr) ==
    <<Out("error", "Chunk upload failed", {})>>

\* lines 146-147: st.error("Chunk upload failed"); st.json(r.json()), whose
\* r.json() raises before anything is shown when the body is not JSON
ChunkFailureOutputs(rr) ==
    IF rr.json
    THEN <<Out("error", "Chunk upload failed", {}),
           Out("json", "", {<<"body", rr.body>>})>>
    ELSE <<Out("error", "Chunk upload failed", {})>>

ChunkRequests(log) == SelectSeq(log, LAMBDA q : q.kind = "chunk")
SessionRequests(log) == SelectSeq(log, LAMBDA q : q.kind = "session")
DirectRequests(log) == SelectSeq(log, LAMBDA q : q.kind = "direct")

----------------------------------------------------------------------------
(* upload_large_file *)

\* lines 116-126: build the session URL and POST the session request
StartDriver(log, folder_id) ==
    /\ sent' = Append(log, Request("session", SessionUrl(folder_id), -1,
                                   <<>>, <<>>, NoSlice, "replace"))
    /\ pc' = "session_wait"

\* lines 126-133: the session response arrives; parse it, take the endpoint,
\* read the file, count the chunks, create the progress bar
SessionResponse ==
    /\ pc = "session_wait"
    /\ \E kind \in {"ok", "no_url", "non_json"} :
         LET answer == SessionBody(kind, nsessions + 1)
         IN  /\ session' = answer
             /\ IF kind = "non_json"
                THEN /\ pc' = "raised"
                     /\ exc' = "JSONDecodeError"
                     /\ UNCHANGED <<upload_url, chunks, i, progress>>
                ELSE IF ~HasUploadUrl(answer)
                THEN /\ pc' = "raised"
                     /\ exc' = "KeyError"
                     /\ UNCHANGED <<upload_url, chunks, i, progress>>
                ELSE /\ upload_url' = UploadUrlOf(answer)
                     /\ chunks' = TotalChunks(size, chunk_size)
                     /\ progress' = <<(<<0, 1>>)>>
                     /\ i' = 0
                     /\ pc' = "loop"
                     /\ exc' = exc
             /\ nsessions' = IF kind = "ok" THEN nsessions + 1 ELSE nsessions
    /\ UNCHANGED <<accounts, token, initialised, current_folder, breadcrumb,
                   folders, size, chunk_size, r, resp, sent, nresp, ui, inv,
                   endpointUse>>

\* lines 135-144: one iteration up to the PUT of chunk i
ChunkPut ==
    /\ pc = "loop"
    /\ i < chunks
    /\ LET start == ChunkStart(i, chunk_size)
           end == ChunkEnd(start, chunk_size, size)
       IN  sent' = Append(sent, Request("chunk", upload_url, i,
                                        ContentLength(start, end),
                                        ContentRange(start, end, size),
                                        Slice(start, end, size), "none"))
    /\ endpointUse' = endpointUse \cup {<<inv, upload_url>>}
    /\ pc' = "put_wait"
    /\ UNCHANGED <<session, exc, accounts, token, initialised, current_folder,
                   breadcrumb, folders, size, chunk_size, upload_url, chunks,
                   i, r, resp, progress, nresp, ui, inv, nsessions>>

\* lines 144-150: the response to chunk i arrives
ChunkResponse ==
    /\ pc = "put_wait"
    /\ \E status \in Statuses, body \in Bodies, json \in BOOLEAN :
         /\ r' = Response(status, body, json, i)
         /\ IF ~IsSuccess(status)
            THEN /\ ui' = ui \o ChunkFailureOutputs(r')
                 /\ pc' = IF json THEN "stopped" ELSE "raised"
                 /\ exc' = IF json THEN exc ELSE "JSONDecodeError"
            ELSE /\ ui' = ui
                 /\ pc' = "loop"
                 /\ exc' = exc
         /\ IF IsSuccess(status)
            THEN /\ progress' = Append(progress, ProgressValue(i, chunks))
                 /\ i' = NextIndex(i)
            ELSE UNCHANGED <<progress, i>>
    /\ nresp' = nresp + 1
    /\ UNCHANGED <<session, accounts, token, initialised, current_folder, breadcrumb,
                   folders, size, chunk_size, upload_url, chunks, resp, sent,
                   inv, nsessions, endpointUse>>

\* line 152: return r
DriverReturn ==
    /\ pc = "loop"
    /\ i >= chunks
    /\ IF r.assigned
       THEN /\ resp' = r
            /\ pc' = "ret"
            /\ exc' = exc
       ELSE /\ resp' = resp
            /\ pc' = "raised"
            /\ exc' = "UnboundLocalError"
    /\ UNCHANGED <<session, accounts, token, initialised, current_folder, breadcrumb,
                   folders, size, chunk_size, upload_url, chunks, i, r,
                   progress, sent, nresp, ui, inv, nsessions, endpointUse>>

----------------------------------------------------------------------------
(* The driver called directly *)

InitDriver ==
    /\ pc = "call"
    /\ exc = "none"
    /\ accounts = TRUE
    /\ token = "tok"
    /\ initialised = TRUE
    /\ current_folder = "root"
    /\ breadcrumb = <<>>
    /\ folders = {}
    /\ size = 0
    /\ chunk_size = CHUNK_SIZE
    /\ session = NoSession
    /\ upload_url = <<>>
    /\ chunks = 0
    /\ i = 0
    /\ r = Unassigned
    /\ resp = Unassigned
    /\ progress = <<>>
    /\ sent = <<>>
    /\ nresp = 0
    /\ ui = <<>>
    /\ inv = 0
    /\ nsessions = 0
    /\ endpointUse = {}

\* upload_large_file(token, file, folder_id) with fresh locals
DriverCall ==
    /\ pc \in {"call", "ret", "stopped", "raised"}
    /\ inv < MaxInvocations
    /\ \E input \in DriverInputs, folder_id \in {"root"} \cup FolderIds :
         /\ size' = input[1]
         /\ chunk_size' = input[2]
         /\ current_folder' = folder_id
         /\ StartDriver(<<>>, folder_id)
    /\ inv' = inv + 1
    /\ exc' = "none"
    /\ session' = NoSession
    /\ upload_url' = <<>>
    /\ chunks' = 0
    /\ i' = 0
    /\ r' = Unassigned
    /\ resp' = Unassigned
    /\ progress' = <<>>
    /\ nresp' = 0
    /\ ui' = <<>>
    /\ UNCHANGED <<accounts, token, initialised, breadcrumb, folders,
                   nsessions, endpointUse>>

NextDriver ==
    \/ DriverCall
    \/ SessionResponse
    \/ ChunkPut
    \/ ChunkResponse
    \/ DriverReturn

SpecDriver == InitDriver /\ [][NextDriver]_vars

----------------------------------------------------------------------------
(* The script, one run after another *)

Ended == pc \in {"done", "stopped", "raised", "rerun"}

Init ==
    /\ pc = "start"
    /\ exc = "none"
    /\ accounts \in BOOLEAN
    /\ token = "none"
    /\ initialised = FALSE
    /\ current_folder = "unset"
    /\ breadcrumb = <<>>
    /\ folders = {}
    /\ size = 0
    /\ chunk_size = CHUNK_SIZE
    /\ session = NoSession
    /\ upload_url = <<>>
    /\ chunks = 0
    /\ i = 0
    /\ r = Unassigned
    /\ resp = Unassigned
    /\ progress = <<>>
    /\ sent = <<>>
    /\ nresp = 0
    /\ ui = <<>>
    /\ inv = 0
    /\ nsessions = 0
    /\ endpointUse = {}

\* Streamlit executes the script again from the top (st.rerun() or a user
\* interaction); module-level names and function locals are fresh, the token
\* cache and st.session_state persist
Rerun ==
    /\ Ended
    /\ pc' = "start"
    /\ exc' = "none"
    /\ token' = "none"
    /\ folders' = {}
    /\ size' = 0
    /\ session' = NoSession
    /\ upload_url' = <<>>
    /\ chunks' = 0
    /\ i' = 0
    /\ r' = Unassigned
    /\ resp' = Unassigned
    /\ progress' = <<>>
    /\ sent' = <<>>
    /\ nresp' = 0
    /\ ui' = <<>>
    /\ UNCHANGED <<accounts, initialised, current_folder, breadcrumb,
                   chunk_size, inv, nsessions, endpointUse>>

UploadLocals == <<size, session, upload_url, chunks, i, r, resp, progress, nresp>>

\* lines 43-48 and 160-172: the silent acquisition returns a token; the script
\* reports it, initialises the navigation state and requests the listing
AuthSilent ==
    /\ pc = "start"
    /\ accounts
    /\ token' = "tok"
    /\ initialised' = TRUE
    /\ current_folder' = IF initialised THEN current_folder ELSE "root"
    /\ breadcrumb' = IF initialised THEN breadcrumb ELSE <<>>
    /\ ui' = Append(ui, Out("success", "Authenticated (silent)", {}))
    /\ sent' = Append(sent, Request("list", ChildrenUrl(current_folder'), -1,
                                    <<>>, <<>>, NoSlice, "none"))
    /\ pc' = "list_wait"
    /\ UNCHANGED <<exc, accounts, folders, chunk_size, inv, nsessions,
                   endpointUse>>
    /\ UNCHANGED UploadLocals

\* lines 50-54: no silent token and the device flow is rejected
AuthFlowRejected ==
    /\ pc = "start"
    /\ ui' = ui \o <<Out("error", "Azure rejected device code flow", {}),
                     Out("json", "", {})>>
    /\ pc' = "stopped"
    /\ UNCHANGED <<exc, accounts, token, initialised, current_folder,
                   breadcrumb, folders, chunk_size, sent, inv, nsessions,
                   endpointUse>>
    /\ UNCHANGED UploadLocals

AuthLoginPending_NoStop ==
    /\ pc = "start"
    /\ token' = "none"
    /\ initialised' = TRUE
    /\ current_folder' = IF initialised THEN current_folder ELSE "root"
    /\ breadcrumb' = IF initialised THEN breadcrumb ELSE <<>>
    /\ ui' = ui \o <<Out("info", "One-time Microsoft login required", {}),
                     Out("code", "", {}),
                     Out("success", "Authenticated (silent)", {})>>
    /\ sent' = Append(sent, Request("list", ChildrenUrl(current_folder'), -1,
                                    <<>>, <<>>, NoSlice, "none"))
    /\ pc' = "list_wait"
    /\ UNCHANGED <<exc, accounts, folders, chunk_size, inv, nsessions,
                   endpointUse>>
    /\ UNCHANGED UploadLocals

\* lines 56-59, 70: the login message is shown, the button is not pressed
AuthLoginPending ==
    /\ pc = "start"
    /\ ui' = ui \o <<Out("info", "One-time Microsoft login required", {}),
                     Out("code", "", {})>>
    /\ pc' = "stopped"
    /\ UNCHANGED <<exc, accounts, token, initialised, current_folder,
                   breadcrumb, folders, chunk_size, sent, inv, nsessions,
                   endpointUse>>
    /\ UNCHANGED UploadLocals

\* lines 59-64: the button is pressed and the device flow yields a token
AuthLoginSucceeded ==
    /\ pc = "start"
    /\ accounts' = TRUE
    /\ ui' = ui \o <<Out("info", "One-time Microsoft login required", {}),
                     Out("code", "", {}),
                     Out("success", "Authentication successful", {})>>
    /\ pc' = "rerun"
    /\ UNCHANGED <<exc, token, initialised, current_folder, breadcrumb,
                   folders, chunk_size, sent, inv, nsessions, endpointUse>>
    /\ UNCHANGED UploadLocals

\* lines 59-60, 65-68: the button is pressed and the device flow fails
AuthLoginFailed ==
    /\ pc = "start"
    /\ ui' = ui \o <<Out("info", "One-time Microsoft login required", {}),
                     Out("code", "", {}),
                     Out("error", "Login failed", {}),
                     Out("json", "", {})>>
    /\ pc' = "stopped"
    /\ UNCHANGED <<exc, accounts, token, initialised, current_folder,
                   breadcrumb, folders, chunk_size, sent, inv, nsessions,
                   endpointUse>>
    /\ UNCHANGED UploadLocals

\* lines 84-87: the listing arrives; raise_for_status() may raise
ListResponse ==
    /\ pc = "list_wait"
    /\ \/ /\ \E fs \in SUBSET FolderIds : folders' = fs
          /\ pc' = "browse"
          /\ exc' = exc
       \/ /\ folders' = folders
          /\ pc' = "raised"
          /\ exc' = "HTTPError"
    /\ UNCHANGED <<accounts, token, initialised, current_folder, breadcrumb,
                   chunk_size, sent, ui, inv, nsessions, endpointUse>>
    /\ UNCHANGED UploadLocals

GoBack_NoPop ==
    /\ pc = "browse"
    /\ breadcrumb # <<>>
    /\ current_folder' = breadcrumb[Len(breadcrumb)]
    /\ breadcrumb' = breadcrumb
    /\ pc' = "rerun"
    /\ UNCHANGED <<exc, accounts, token, initialised, folders, chunk_size,
                   sent, ui, inv, nsessions, endpointUse>>
    /\ UNCHANGED UploadLocals

\* lines 177-179
GoBack ==
    /\ pc = "browse"
    /\ breadcrumb # <<>>
    /\ current_folder' = breadcrumb[Len(breadcrumb)]
    /\ breadcrumb' = SubSeq(breadcrumb, 1, Len(breadcrumb) - 1)
    /\ pc' = "rerun"
    /\ UNCHANGED <<exc, accounts, token, initialised, folders, chunk_size,
                   sent, ui, inv, nsessions, endpointUse>>
    /\ UNCHANGED UploadLocals

\* lines 182-184, 89-101: a folder name is typed; POST the new folder
CreateFolderPost ==
    /\ pc = "browse"
    /\ Len(breadcrumb) < MaxDepth
    /\ sent' = Append(sent, Request("mkdir", ChildrenUrl(current_folder), -1,
                                    <<>>, <<>>, NoSlice, "rename"))
    /\ pc' = "mkdir_wait"
    /\ UNCHANGED <<exc, accounts, token, initialised, current_folder,
                   breadcrumb, folders, chunk_size, ui, inv, nsessions,
                   endpointUse>>
    /\ UNCHANGED UploadLocals

\* lines 102-103, 185-187
CreateFolderResponse ==
    /\ pc = "mkdir_wait"
    /\ \/ /\ \E new_id \in FolderIds : current_folder' = new_id
          /\ breadcrumb' = Append(breadcrumb, current_folder)
          /\ pc' = "rerun"
          /\ exc' = exc
       \/ /\ UNCHANGED <<current_folder, breadcrumb>>
          /\ pc' = "raised"
          /\ exc' = "HTTPError"
    /\ UNCHANGED <<accounts, token, initialised, folders, chunk_size, sent,
                   ui, inv, nsessions, endpointUse>>
    /\ UNCHANGED UploadLocals

\* lines 189-196: a listed folder is chosen in the selectbox
EnterFolder ==
    /\ pc = "browse"
    /\ Len(breadcrumb) < MaxDepth
    /\ \E chosen \in folders : current_folder' = chosen
    /\ breadcrumb' = Append(breadcrumb, current_folder)
    /\ pc' = "rerun"
    /\ UNCHANGED <<exc, accounts, token, initialised, folders, chunk_size,
                   sent, ui, inv, nsessions, endpointUse>>
    /\ UNCHANGED UploadLocals

\* lines 203-205: no file, or the upload button is not pressed
NoUpload ==
    /\ pc = "browse"
    /\ pc' = "done"
    /\ UNCHANGED <<exc, accounts, token, initialised, current_folder,
                   breadcrumb, folders, chunk_size, sent, ui, inv, nsessions,
                   endpointUse>>
    /\ UNCHANGED UploadLocals

\* lines 205-212 with 105-114 or 116-126: the upload button is pressed; the
\* size decides the path and the first request of that path is issued
UploadClick ==
    /\ pc = "browse"
    /\ inv < MaxInvocations
    /\ \E sz \in FileSizes :
         /\ size' = sz
         /\ IF UseDirect(sz)
            THEN /\ sent' = Append(sent, Request("direct",
                                ContentUrl(current_folder), -1, <<>>, <<>>,
                                Slice(0, sz, sz), "none"))
                 /\ pc' = "direct_wait"
            ELSE StartDriver(sent, current_folder)
    /\ ui' = Append(ui, Out("info", "File size", {}))
    /\ inv' = inv + 1
    /\ UNCHANGED <<session, exc, accounts, token, initialised, current_folder,
                   breadcrumb, folders, chunk_size, upload_url, chunks, i, r,
                   resp, progress, nresp, nsessions, endpointUse>>

\* line 114 / 210: the response of the direct PUT is returned as resp
DirectResponse ==
    /\ pc = "direct_wait"
    /\ \E status \in Statuses, body \in Bodies, json \in BOOLEAN :
         resp' = Response(status, body, json, -1)
    /\ pc' = "ret"
    /\ UNCHANGED <<session, exc, accounts, token, initialised, current_folder,
                   breadcrumb, folders, size, chunk_size, upload_url, chunks,
                   i, r, progress, sent, nresp, ui, inv, nsessions,
                   endpointUse>>

ReportSuccess_Only200(status) == status = 200

\* resp.status_code in (200, 201, 202)   (line 214)
ReportSuccess(status) == status \in {200, 201, 202}

\* lines 214-218
Report ==
    /\ pc = "ret"
    /\ IF ReportSuccess(resp.status)
       THEN /\ ui' = Append(ui, Out("success",
                                    "File uploaded successfully to OneDrive", {}))
            /\ pc' = "done"
            /\ exc' = exc
       ELSE IF resp.json
       THEN /\ ui' = ui \o <<Out("error", "Upload failed", {}),
                             Out("json", "", {<<"body", resp.body>>})>>
            /\ pc' = "done"
            /\ exc' = exc
       ELSE /\ ui' = Append(ui, Out("error", "Upload failed", {}))
            /\ pc' = "raised"
            /\ exc' = "JSONDecodeError"
    /\ UNCHANGED <<session, accounts, token, initialised, current_folder, breadcrumb,
                   folders, size, chunk_size, upload_url, chunks, i, r, resp,
                   progress, sent, nresp, inv, nsessions, endpointUse>>

Next ==
    \/ Rerun
    \/ AuthSilent
    \/ AuthFlowRejected
    \/ AuthLoginPending
    \/ AuthLoginSucceeded
    \/ AuthLoginFailed
    \/ ListResponse
    \/ GoBack
    \/ CreateFolderPost
    \/ CreateFolderResponse
    \/ EnterFolder
    \/ NoUpload
    \/ UploadClick
    \/ DirectResponse
    \/ SessionResponse
    \/ ChunkPut
    \/ ChunkResponse
    \/ DriverReturn
    \/ Report

Spec == Init /\ [][Next]_vars

----------------------------------------------------------------------------
(* Reading the headers back, as the receiving service does *)

DigitValue(c) ==
    CASE c = "0" -> 0 [] c = "1" -> 1 [] c = "2" -> 2 [] c = "3" -> 3
      [] c = "4" -> 4 [] c = "5" -> 5 [] c = "6" -> 6 [] c = "7" -> 7
      [] c = "8" -> 8 [] c = "9" -> 9

IsDecimal(t) ==
    /\ Len(t) >= 1
    /\ \A k \in 1..Len(t) :
         t[k] \in {"0", "1", "2", "3", "4", "5", "6", "7", "8", "9"}

RECURSIVE ParseNat(_)
ParseNat(t) ==
    IF Len(t) = 0 THEN 0
    ELSE 10 * ParseNat(SubSeq(t, 1, Len(t) - 1)) + DigitValue(t[Len(t)])

\* position of the first c in t, 0 if there is none
FirstIndex(t, c) ==
    IF \E k \in 1..Len(t) : t[k] = c
    THEN CHOOSE k \in 1..Len(t) : t[k] = c /\ \A m \in 1..(k - 1) : t[m] # c
    ELSE 0

\* "bytes F-L/T" read back into its three numbers
ParseRange(t) ==
    LET dash == FirstIndex(t, "-")
        slash == FirstIndex(t, "/")
        f == SubSeq(t, 7, dash - 1)
        l == SubSeq(t, dash + 1, slash - 1)
        tot == SubSeq(t, slash + 1, Len(t))
        ok == /\ Len(t) >= 11
              /\ SubSeq(t, 1, 6) = <<"b", "y", "t", "e", "s", " ">>
              /\ dash > 7
              /\ slash > dash + 1
              /\ IsDecimal(f) /\ IsDecimal(l) /\ IsDecimal(tot)
    IN  IF ok
        THEN [ok |-> TRUE, first |-> ParseNat(f), last |-> ParseNat(l),
              total |-> ParseNat(tot)]
        ELSE [ok |-> FALSE, first |-> 0, last |-> 0, total |-> 0]

----------------------------------------------------------------------------
(* Properties *)

Sent == ChunkRequests(sent)

\* the driver has parsed a usable session response and counted the chunks
Counted == session.kind = "ok"

\* the last chunk response received was a failure
ChunkFailed == r.assigned /\ r.status \notin {200, 201, 202}

\* C1: for every file length >= 1 and chunk size >= 1 the ranges
\* [start_i, end_i), i = 0 .. chunks-1, with chunks = ceil(size / chunk size),
\* partition [0, size): the first starts at 0, each ends where the next
\* starts, the last ends at size, none is empty or longer than the chunk
\* size, and only the last may be shorter; the chunks sent carry these ranges.
C1_Partition ==
    (Counted /\ size >= 1 /\ chunk_size >= 1) =>
        LET S(j) == ChunkStart(j, chunk_size)
            E(j) == ChunkEnd(S(j), chunk_size, size)
        IN  /\ chunks >= 1
            /\ chunks * chunk_size >= size
            /\ (chunks - 1) * chunk_size < size
            /\ S(0) = 0
            /\ \A j \in 0..(chunks - 2) :
                 E(j) = S(j + 1) /\ E(j) - S(j) = chunk_size
            /\ E(chunks - 1) = size
            /\ \A j \in 0..(chunks - 1) :
                 S(j) < E(j) /\ E(j) - S(j) <= chunk_size
            /\ \A k \in 1..Len(Sent) :
                 Sent[k].lo = S(Sent[k].index) /\ Sent[k].hi = E(Sent[k].index)

C1_Witness ==
    /\ pc = "ret"
    /\ chunks = 3
    /\ size % chunk_size # 0
    /\ Len(Sent) = 3
    /\ Sent[3].hi = size

\* C2: once a chunk PUT is answered with a status outside {200, 201, 202},
\* no further chunk PUT is issued in that upload: the failed chunk is the
\* last one sent, it was sent once, and no later step of the same upload
\* adds a request.
C2_StopStep ==
    ChunkFailed =>
        /\ pc \in {"stopped", "raised"}
        /\ Len(Sent) = r.index + 1
        /\ \A k \in 1..Len(Sent) : Sent[k].index <= r.index
        /\ Cardinality({k \in 1..Len(Sent) : Sent[k].index = r.index}) = 1
        /\ (inv' = inv /\ ChunkFailed') => sent' = sent
        /\ (sent' # sent) => (~ChunkFailed' /\ Len(ChunkRequests(sent')) = 0)

C2_StopsAfterFailure == [][C2_StopStep]_vars

C2_Witness ==
    /\ ChunkFailed
    /\ chunks = 3
    /\ r.index = 1
    /\ r.status = 500
    /\ Len(Sent) = 2

C4_Sequential ==
    /\ \A k \in 1..Len(Sent) : Sent[k].index = k - 1
    /\ Len(Sent) - nresp \in {0, 1}
    /\ (Len(Sent) - nresp = 1) <=> (pc = "put_wait")
    /\ (pc = "put_wait" /\ Len(Sent) >= 2) =>
         /\ r.assigned
         /\ r.index = Len(Sent) - 2
         /\ r.status \in {200, 201, 202}
    /\ (pc = "ret" /\ r.assigned) =>
         /\ Len(Sent) = chunks
         /\ {Sent[k].index : k \in 1..Len(Sent)} = 0..(chunks - 1)
         /\ nresp = chunks

C4_Witness ==
    /\ pc = "ret"
    /\ chunks = 4
    /\ Len(Sent) = 4
    /\ nresp = 4

\* C5: the PUT of chunk i carries the bytes [start, end) with
\* start = i * chunk size and end = min(start + chunk size, size); its
\* Content-Length reads end - start and its Content-Range reads
\* "bytes start-(end-1)/size", so last - first + 1 equals the declared length
\* and the body length; for size 819200 and chunk size 327680 the three
\* Content-Range headers are the literal ones.
C5_Headers ==
    \A k \in 1..Len(Sent) :
        LET q == Sent[k]
            s == q.index * chunk_size
            e == IF s + chunk_size <= size THEN s + chunk_size ELSE size
            h == ParseRange(q.crange)
        IN  /\ q.lo = s
            /\ q.hi = e
            /\ IsDecimal(q.clen)
            /\ ParseNat(q.clen) = e - s
            /\ h.ok
            /\ h.first = s
            /\ h.last = e - 1
            /\ h.total = size
            /\ h.last - h.first + 1 = ParseNat(q.clen)
            /\ h.last - h.first + 1 = q.hi - q.lo
            /\ (size = 819200 /\ chunk_size = 327680) =>
                 /\ q.index \in 0..2
                 /\ q.index = 0 => q.crange = <<"b", "y", "t", "e", "s", " ", "0", "-", "3", "2", "7", "6", "7", "9", "/", "8", "1", "9", "2", "0", "0">>
                 /\ q.index = 1 => q.crange = <<"b", "y", "t", "e", "s", " ", "3", "2", "7", "6", "8", "0", "-", "6", "5", "5", "3", "5", "9", "/", "8", "1", "9", "2", "0", "0">>
                 /\ q.index = 2 => q.crange = <<"b", "y", "t", "e", "s", " ", "6", "5", "5", "3", "6", "0", "-", "8", "1", "9", "1", "9", "9", "/", "8", "1", "9", "2", "0", "0">>

C5_Witness ==
    /\ size = 819200
    /\ chunk_size = 327680
    /\ Len(Sent) = 3
    /\ pc = "ret"

\* the values given to the bar after successful chunks (the first value of
\* the bar is the 0.0 it is created with)
Emitted == IF progress = <<>> THEN <<>> ELSE Tail(progress)

\* C6: the k-th value emitted is k / chunks, emitted after chunk k-1
\* succeeded; the values are strictly increasing and at most 1; no value is
\* emitted for a failed chunk; 1.0 is emitted exactly when all chunks of the
\* upload have succeeded, and then it is the last value.
C6_Progress ==
    LET em == Emitted
        succeeded == IF ChunkFailed THEN nresp - 1 ELSE nresp
    IN  /\ \A k \in 1..Len(em) : em[k] = <<k, chunks>> /\ em[k][1] <= em[k][2]
        /\ \A k \in 1..(Len(progress) - 1) :
             progress[k][1] * progress[k + 1][2]
                < progress[k + 1][1] * progress[k][2]
        /\ Len(em) = succeeded
        /\ (\E k \in 1..Len(em) : em[k][1] = em[k][2])
             <=> (chunks >= 1 /\ succeeded = chunks)
        /\ \A k \in 1..Len(em) : em[k][1] = em[k][2] => k = Len(em)

C6_Witness ==
    /\ pc = "ret"
    /\ chunks = 3
    /\ Emitted = <<(<<1, 3>>), (<<2, 3>>), (<<3, 3>>)>>

\* an upload was started in this run (line 207 precedes both paths)
UploadStarted == \E k \in DOMAIN ui : ui[k] = Out("info", "File size", {})

\* C7: an upload takes the direct path iff its size is <= 4*1024*1024 and
\* the chunked path iff it is larger; it issues exactly one of a direct PUT
\* and a session request, never both, and chunk PUTs only on the chunked path.
C7_PathBySize ==
    LET d == Len(DirectRequests(sent))
        n == Len(SessionRequests(sent))
    IN  IF UploadStarted
        THEN /\ d + n = 1
             /\ (d = 1) <=> (size <= 4 * 1024 * 1024)
             /\ (n = 1) <=> (size > 4 * 1024 * 1024)
             /\ (size = 4194304) => (d = 1 /\ n = 0 /\ Len(Sent) = 0)
             /\ (size = 4194305) => (d = 0 /\ n = 1)
             /\ (d = 1) => Len(Sent) = 0
        ELSE d = 0 /\ n = 0 /\ Len(Sent) = 0

C7_Witness ==
    /\ UploadStarted
    /\ size = 4194304
    /\ Len(DirectRequests(sent)) = 1
    /\ pc = "done"

\* C8 as stated: called with a file of length 0 the driver ends with a
\* defined outcome, a single empty-range chunk or a returned result, and
\* never by reading a result that was never assigned.
C8_ZeroLengthDefined ==
    (inv >= 1 /\ size = 0 /\ Counted /\ pc \notin {"loop", "put_wait"}) =>
        /\ exc # "UnboundLocalError"
        /\ \/ Len(Sent) = 1 /\ Sent[1].lo = 0 /\ Sent[1].hi = 0
           \/ pc = "ret" /\ resp.assigned

\* C9: when the session response has no uploadUrl the invocation fails at
\* once: it ended with an exception, no chunk PUT was issued, the session
\* request was issued once, and nothing was returned or reported as success.
C9_NoEndpoint ==
    (session.kind \in {"no_url", "non_json"}) =>
        /\ pc = "raised"
        /\ exc \in {"KeyError", "JSONDecodeError"}
        /\ Len(Sent) = 0
        /\ nresp = 0
        /\ Len(SessionRequests(sent)) = 1
        /\ ~resp.assigned
        /\ progress = <<>>
        /\ \A k \in DOMAIN ui : ui[k].op # "success" \/ ui[k].text = "Authenticated (silent)"
        /\ \A e \in endpointUse : e[1] # inv

C9_Witness ==
    /\ session.kind = "no_url"
    /\ exc = "KeyError"
    /\ pc = "raised"
    /\ inv = 2

\* C10: an upload on the chunked path issues exactly one session request,
\* with conflict policy "replace", before any chunk PUT; chunk PUTs are sent
\* only once it is answered, all to the endpoint it returned; and no endpoint
\* receives chunk PUTs of two different uploads.
C10_OneSession ==
    LET sess == SessionRequests(sent)
        pos == FirstIndex([k \in 1..Len(sent) |-> IF sent[k].kind = "session"
                                                  THEN "-" ELSE "x"], "-")
    IN  /\ (pc \in {"session_wait", "loop", "put_wait"} \/ Len(Sent) > 0) =>
              /\ Len(sess) = 1
              /\ sess[1].conflict = "replace"
        /\ Len(Sent) > 0 =>
              /\ Counted
              /\ \A k \in 1..Len(sent) : sent[k].kind = "chunk" =>
                     /\ pos >= 1
                     /\ pos < k
                     /\ sent[k].url = session.uploadUrl
                     /\ <<inv, sent[k].url>> \in endpointUse
        /\ \A a \in endpointUse, b \in endpointUse : a[2] = b[2] => a[1] = b[1]

C10_Witness ==
    /\ inv = 2
    /\ Len(Sent) >= 2
    /\ Cardinality(endpointUse) = 2
    /\ pc = "ret"

\* C11: every chunk PUT starts at a multiple of 320 KiB (327680 bytes); one
\* that does not end at the file size carries exactly the chunk size, itself
\* a positive multiple of 320 KiB; only the chunk whose range ends at the
\* file size may have a length that is not a multiple of 320 KiB.
C11_Granularity ==
    \A k \in 1..Len(Sent) :
        LET q == Sent[k]
            h == ParseRange(q.crange)
        IN  /\ q.lo % 327680 = 0
            /\ h.first % 327680 = 0
            /\ (k < Len(Sent) \/ q.hi # size) =>
                 /\ q.hi - q.lo = chunk_size
                 /\ ParseNat(q.clen) = chunk_size
                 /\ chunk_size > 0
                 /\ chunk_size % 327680 = 0
            /\ ((q.hi - q.lo) % 327680 # 0) => (q.hi = size /\ q.index = chunks - 1)

C11_Witness ==
    /\ size = 13 * 327680 + 1
    /\ Len(Sent) = 14
    /\ Sent[13].hi - Sent[13].lo = 327680
    /\ Sent[14].hi - Sent[14].lo = 1
    /\ pc = "ret"

\* the upload of this run took the direct path
DirectPath == UploadStarted /\ size <= 4 * 1024 * 1024

\* the outputs of lines 214-218 in this run
ShownSuccess ==
    \E k \in DOMAIN ui :
        ui[k] = Out("success", "File uploaded successfully to OneDrive", {})

ShownFailure == \E k \in DOMAIN ui : ui[k] = Out("error", "Upload failed", {})

ShownBody(b) ==
    \E k \in DOMAIN ui : ui[k].op = "json" /\ ui[k].data = {<<"body", b>>}

\* C12: on the direct path exactly one PUT carrying the whole file is
\* issued, with no session request, no chunk PUT and no retry; once the run
\* is over, success is reported iff the status of that PUT is in
\* {200, 201, 202}, and otherwise a failure is reported together with the
\* response body.
C12_DirectOutcome ==
    DirectPath =>
        LET d == DirectRequests(sent)
        IN  /\ Len(d) = 1
            /\ d[1].lo = 0
            /\ d[1].hi = size
            /\ Len(SessionRequests(sent)) = 0
            /\ Len(Sent) = 0
            /\ (resp.assigned /\ pc \in {"done", "raised"}) =>
                 /\ ShownSuccess <=> resp.status \in {200, 201, 202}
                 /\ resp.status \notin {200, 201, 202} =>
                      (ShownFailure /\ ShownBody(resp.body))

\* the part of C12 the code keeps: one whole-file PUT and nothing else,
\* success reported iff the status is in the set, "Upload failed" shown
\* otherwise
C12_DirectRequests ==
    DirectPath =>
        LET d == DirectRequests(sent)
        IN  /\ Len(d) = 1
            /\ d[1].lo = 0
            /\ d[1].hi = size
            /\ Len(SessionRequests(sent)) = 0
            /\ Len(Sent) = 0
            /\ (resp.assigned /\ pc \in {"done", "raised"}) =>
                 /\ ShownSuccess <=> resp.status \in {200, 201, 202}
                 /\ ShownFailure <=> resp.status \notin {200, 201, 202}
                 /\ (resp.status \notin {200, 201, 202} /\ resp.json)
                      => ShownBody(resp.body)

\* the upload of this run took the chunked path
ChunkedPath == UploadStarted /\ Len(SessionRequests(sent)) = 1

\* every chunk of the upload was answered with a success status
AllChunksSucceeded == Counted /\ chunks >= 1 /\ nresp = chunks /\ ~ChunkFailed

\* C13: a value returned by upload_large_file is the response to chunk
\* chunks-1 and its status is in {200, 201, 202}; so after a chunked upload
\* the script reports success iff every chunk PUT succeeded, and never
\* reaches its own "Upload failed" branch.
C13_ReturnIsLastSuccess ==
    ChunkedPath =>
        /\ resp.assigned =>
             /\ resp = r
             /\ resp.index = chunks - 1
             /\ resp.status \in {200, 201, 202}
             /\ Sent[Len(Sent)].index = chunks - 1
             /\ AllChunksSucceeded
        /\ ~ShownFailure
        /\ ShownSuccess => (AllChunksSucceeded /\ resp.assigned)
        /\ (AllChunksSucceeded /\ pc \in {"done", "stopped", "raised"})
             => ShownSuccess
        /\ (pc = "done") => ShownSuccess

C13_Witness ==
    /\ ChunkedPath
    /\ pc = "done"
    /\ ShownSuccess
    /\ chunks = 14
    /\ resp.index = 13
    /\ resp.status = 202

\* C14: through the script upload_large_file is entered only with a file
\* larger than 4*1024*1024 bytes; with 320 KiB chunks it counts at least 13
\* chunks, sends chunk 0 before it can leave the loop, and never ends by
\* reading the unassigned response.
C14_DriverNeverEmpty ==
    /\ Len(SessionRequests(sent)) > 0 =>
         /\ UploadStarted
         /\ size > 4 * 1024 * 1024
         /\ chunk_size = 320 * 1024
    /\ (Counted \/ Len(Sent) > 0) =>
         /\ chunks >= 13
         /\ chunks >= 1
         /\ chunks * 327680 >= size
    /\ (Counted /\ pc \notin {"loop", "put_wait"}) =>
         /\ Len(Sent) >= 1
         /\ Sent[1].index = 0
         /\ r.assigned
    /\ (Counted /\ pc = "loop" /\ i >= chunks) => r.assigned
    /\ exc # "UnboundLocalError"

C14_Witness ==
    /\ ChunkedPath
    /\ size = 4 * 1024 * 1024 + 1
    /\ chunks = 13
    /\ pc = "ret"
    /\ r.assigned
    /\ Len(Sent) = 13

\* an output of the device-code branch of get_access_token (lines 50-68)
DeviceFlowShown ==
    \E k \in DOMAIN ui :
        ui[k].text \in {"Azure rejected device code flow",
                        "One-time Microsoft login required",
                        "Authentication successful", "Login failed"}

\* C15: a request to the storage service (listing, folder creation, direct
\* upload, session creation, chunk) is issued only in a run whose
\* get_access_token returned the silently acquired token; a run that took
\* the device-code branch stopped or restarted before any request, and the
\* code after the call never runs without a token.
C15_TokenBeforeRequests ==
    /\ sent # <<>> =>
         /\ token = "tok"
         /\ accounts
         /\ ui # <<>>
         /\ ui[1] = Out("success", "Authenticated (silent)", {})
         /\ ~DeviceFlowShown
    /\ token = "none" =>
         /\ sent = <<>>
         /\ pc \in {"start", "stopped", "rerun"}
    /\ pc \notin {"start", "stopped", "rerun"} => token = "tok"
    /\ DeviceFlowShown =>
         /\ pc \in {"stopped", "rerun"}
         /\ token = "none"
         /\ sent = <<>>

C15_Witness ==
    /\ token = "tok"
    /\ Len(sent) >= 2
    /\ sent[1].kind = "list"
    /\ sent[2].kind = "session"
    /\ inv = 2

\* the breadcrumb is a stack over "root": empty exactly at the root, with
\* "root" at the bottom and folder identifiers above it
NavShape ==
    IF initialised
    THEN /\ current_folder \in {"root"} \cup FolderIds
         /\ (breadcrumb = <<>>) <=> (current_folder = "root")
         /\ breadcrumb # <<>> => breadcrumb[1] = "root"
         /\ \A k \in 2..Len(breadcrumb) : breadcrumb[k] \in FolderIds
    ELSE breadcrumb = <<>>

\* the only steps that change the navigation state: the first run sets
\* root and an empty breadcrumb, an enter pushes the folder that was
\* current, Go Back needs a non-empty breadcrumb and undoes the last push
NavStep ==
    (current_folder' # current_folder \/ breadcrumb' # breadcrumb) =>
        \/ /\ ~initialised
           /\ initialised'
           /\ current_folder' = "root"
           /\ breadcrumb' = <<>>
        \/ /\ initialised
           /\ breadcrumb' = Append(breadcrumb, current_folder)
           /\ current_folder' \in FolderIds
        \/ /\ initialised
           /\ breadcrumb # <<>>
           /\ current_folder' = breadcrumb[Len(breadcrumb)]
           /\ Append(breadcrumb', current_folder') = breadcrumb

\* C16: starting from current_folder = "root" with an empty breadcrumb, and
\* no folder identifier being "root", the breadcrumb is the stack of the
\* folders that were current before each enter not yet undone: empty iff
\* current_folder is "root", "root" at its bottom, each enter pushes the
\* previous current_folder, Go Back happens only on a non-empty breadcrumb
\* and makes the popped top current, which undoes the matching enter (so k
\* enters followed by k Go Backs restore folder and breadcrumb).
C16_Breadcrumb == []NavShape /\ [][NavStep]_vars

C16_Witness ==
    /\ initialised
    /\ sent # <<>>
    /\ pc = "rerun"
    /\ breadcrumb = <<>>
    /\ current_folder = "root"

====
